---------------------------- MODULE Spec2Model ----------------------------
(***************************************************************************)
(* Review classification pipeline: the keyword/priority/embedding theme    *)
(* assignment engine (layer2_theme_extraction.py) and the remote batch     *)
(* classifier (src/classifier.py).                                         *)
(*                                                                         *)
(* Text is a sequence of one-character strings, so that lower(), strip()   *)
(* and the substring test `in` are computed as Python computes them.       *)
(* Embedding vectors are tuples of integers; cosine similarities are       *)
(* compared exactly (rounding of floating point is not modelled).          *)
(***************************************************************************)
EXTENDS Integers, Sequences, FiniteSets, TLC

(* ------------------------------ bounds --------------------------------- *)
MaxFragments == 2      \* a review content is made of at most this many fragments
MaxRows == 12          \* rows of the table the remote classifier is run on

(* --------------------------- Python strings ---------------------------- *)
UpperCase == <<"A","B","C","D","E","F","G","H","I","J","K","L","M",
               "N","O","P","Q","R","S","T","U","V","W","X","Y","Z">>
LowerCase == <<"a","b","c","d","e","f","g","h","i","j","k","l","m",
               "n","o","p","q","r","s","t","u","v","w","x","y","z">>
Whitespace == {" ", "\t", "\n"}

\* str.lower() on one character
LowerChar(c) ==
  IF \E i \in 1..Len(UpperCase) : UpperCase[i] = c
  THEN LowerCase[CHOOSE i \in 1..Len(UpperCase) : UpperCase[i] = c]
  ELSE c

\* str.lower()
lower(s) == [i \in 1..Len(s) |-> LowerChar(s[i])]

\* str.strip(): drop leading and trailing whitespace
strip(s) ==
  LET keep == {i \in 1..Len(s) : s[i] \notin Whitespace}
  IN IF keep = {} THEN << >>
     ELSE LET first == CHOOSE i \in keep : \A j \in keep : i <= j
              last == CHOOSE i \in keep : \A j \in keep : j <= i
          IN SubSeq(s, first, last)

\* the Python test  k in s  for strings
IsSubstring(k, s) ==
  \E i \in 0..(Len(s) - Len(k)) : SubSeq(s, i + 1, i + Len(k)) = k

(* ----------------------------- the catalogs ---------------------------- *)
\* A catalog is a Python dict in insertion order: a sequence of buckets.
SENTIMENT == "General Sentiment"
UNCATEGORIZED == "Uncategorized"
PyNone == "<None>"

OPERATIONAL_BUCKETS ==
  <<
    [name |-> "Order Execution", priority |-> 1, keywords |-> <<
        <<"b","u","y">>,
        <<"s","e","l","l">>,
        <<"t","r","a","d","e">>,
        <<"s","t","o","p","-","l","o","s","s">>,
        <<"o","r","d","e","r">>,
        <<"m","a","r","k","e","t"," ","t","i","m","i","n","g">>,
        <<"s","t","u","c","k">>,
        <<"p","r","i","c","e"," ","n","o","t"," ","u","p","d","a","t","e","d">>,
        <<"w","r","o","n","g"," ","c","a","n","d","l","e">>,
        <<"l","o","s","s">>,
        <<"p","r","o","f","i","t">>,
        <<"e","x","e","c","u","t","i","o","n">>,
        <<"l","a","g","g","i","n","g">>,
        <<"f","a","i","l">>>>],
    [name |-> "Payments/Money", priority |-> 2, keywords |-> <<
        <<"m","o","n","e","y">>,
        <<"p","a","y","m","e","n","t">>,
        <<"w","i","t","h","d","r","a","w">>,
        <<"a","d","d"," ","f","u","n","d">>,
        <<"U","P","I">>,
        <<"N","e","t","b","a","n","k","i","n","g">>,
        <<"w","i","t","h","d","r","a","w","a","l">>,
        <<"d","e","p","o","s","i","t">>,
        <<"t","r","a","n","s","a","c","t","i","o","n">>,
        <<"t","r","a","n","s","f","e","r","r","e","d">>,
        <<"c","r","e","d","i","t">>,
        <<"d","e","b","i","t">>>>],
    [name |-> "App Performance", priority |-> 3, keywords |-> <<
        <<"c","r","a","s","h">>,
        <<"l","a","g">>,
        <<"s","l","o","w">>,
        <<"f","r","e","e","z","e">>,
        <<"b","u","g">>,
        <<"e","r","r","o","r">>,
        <<"n","o","t"," ","w","o","r","k","i","n","g">>,
        <<"t","e","c","h","n","i","c","a","l"," ","i","s","s","u","e">>,
        <<"h","a","n","g">>,
        <<"b","a","t","t","e","r","y"," ","d","r","a","i","n">>,
        <<"g","l","i","t","c","h">>>>],
    [name |-> "Onboarding/KYC", priority |-> 4, keywords |-> <<
        <<"K","Y","C">>,
        <<"o","n","b","o","a","r","d">>,
        <<"s","i","g","n"," ","u","p">>,
        <<"v","e","r","i","f","y">>,
        <<"d","o","c","u","m","e","n","t">>,
        <<"a","c","c","o","u","n","t"," ","a","c","t","i","v","a","t","i","o","n">>,
        <<"r","e","g","i","s","t","r","a","t","i","o","n">>,
        <<"l","o","g","i","n"," ","i","s","s","u","e">>>>],
    [name |-> "Charges/Policy", priority |-> 5, keywords |-> <<
        <<"c","h","a","r","g","e","s">>,
        <<"f","e","e","s">>,
        <<"b","r","o","k","e","r","a","g","e">>,
        <<"a","c","c","o","u","n","t"," ","m","a","i","n","t","e","n","a","n","c","e">>,
        <<"h","i","d","d","e","n"," ","c","h","a","r","g","e","s">>,
        <<"c","o","m","m","i","s","s","i","o","n">>,
        <<"p","o","l","i","c","y">>>>],
    [name |-> "General Sentiment", priority |-> 99, keywords |-> <<
        <<"g","o","o","d"," ","a","p","p">>,
        <<"e","a","s","y"," ","t","o"," ","u","s","e">>,
        <<"b","e","s","t"," ","a","p","p">>,
        <<"s","u","p","e","r","b">>,
        <<"e","x","c","e","l","l","e","n","t">>,
        <<"n","i","c","e"," ","a","p","p">>,
        <<"g","r","e","a","t"," ","a","p","p">>,
        <<"s","i","m","p","l","e"," ","i","n","t","e","r","f","a","c","e">>,
        <<"u","s","e","r"," ","f","r","i","e","n","d","l","y">>,
        <<"n","o"," ","c","o","m","p","l","a","i","n","t","s">>>>]
  >>

\* Further catalogs the function is applied to: tied priorities with the
\* sentiment bucket first and the most urgent bucket last, a catalog with
\* only the sentiment bucket, an empty one and one without sentiment bucket.
TIED_BUCKETS ==
  <<
    [name |-> "General Sentiment", priority |-> 99, keywords |-> <<
        <<"g","r","e","a","t"," ","a","p","p">>>>],
    [name |-> "Stability", priority |-> 2, keywords |-> <<
        <<"c","r","a","s","h">>>>],
    [name |-> "Trading", priority |-> 2, keywords |-> <<
        <<"b","u","y">>>>],
    [name |-> "Identity", priority |-> 1, keywords |-> <<
        <<"k","y","c">>>>]
  >>
SENTIMENT_ONLY_BUCKETS ==
  <<
    [name |-> "General Sentiment", priority |-> 99, keywords |-> <<
        <<"g","r","e","a","t"," ","a","p","p">>>>]
  >>
EMPTY_BUCKETS == << >>
NO_SENTIMENT_BUCKETS ==
  <<
    [name |-> "Stability", priority |-> 1, keywords |-> <<
        <<"c","r","a","s","h">>>>]
  >>
Catalogs ==
  {OPERATIONAL_BUCKETS, TIED_BUCKETS, SENTIMENT_ONLY_BUCKETS,
   EMPTY_BUCKETS, NO_SENTIMENT_BUCKETS}

\* list(operational_buckets.keys())
keys(catalog) ==
  [i \in 1..Len(catalog) |-> catalog[i].name]
HasKey(catalog, bucket_name) ==
  \E i \in 1..Len(catalog) : catalog[i].name = bucket_name
\* list.index(bucket_name), counted from 1
index(names, bucket_name) ==
  CHOOSE i \in 1..Len(names) :
    names[i] = bucket_name /\ \A j \in 1..(i - 1) : names[j] # bucket_name
\* catalog[bucket_name]
Bucket(catalog, bucket_name) ==
  catalog[index(keys(catalog), bucket_name)]

(* --------------------------- review contents --------------------------- *)
\* The fragments a content is put together from, in the order they appear
\* in it: whitespace, two words written in upper case, and one keyword of
\* three buckets of the catalogs.
Fragments ==
  << <<" ", "\t">>, <<"U","P","I">>, <<"K","Y","C">>, <<"c","r","a","s","h">>,
     <<"b","u","y">>, <<"g","r","e","a","t"," ","a","p","p">> >>

\* "".join of the fragments at the chosen positions, from position i on
RECURSIVE Join(_, _)
Join(chosen, i) ==
  IF i > Len(Fragments) THEN << >>
  ELSE (IF i \in chosen THEN Fragments[i] ELSE << >>) \o Join(chosen, i + 1)

Texts ==
  { Join(chosen, 1) :
      chosen \in {c \in SUBSET (1..Len(Fragments)) : Cardinality(c) <= MaxFragments} }

\* A content cell of the reviews table: a string, or a missing value (NaN)
Contents ==
  { [isna |-> FALSE, text |-> t] : t \in Texts } \cup { [isna |-> TRUE, text |-> << >>] }

(* ------------------------------ embeddings ----------------------------- *)
\* np.random.rand draws every component from [0, 1): the vectors the
\* simulated provider can return have no negative component.  The text
\* given to the provider does not influence the draw.
EmbeddingSpace == { <<1, 0>>, <<1, 1>>, <<0, 1>> }
get_embedding_simulation(text_input) == EmbeddingSpace

RECURSIVE Dot(_, _)
Dot(x, y) ==
  IF x = << >> \/ y = << >> THEN 0
  ELSE Head(x) * Head(y) + Dot(Tail(x), Tail(y))

\* A similarity c is kept as the exact fraction num/den = sign(c) * c^2,
\* which orders similarities as c itself does (c -> sign(c) * c^2 is
\* strictly increasing on [-1, 1]).  A zero vector is left unnormalised by
\* sklearn and so has similarity 0 to everything.
cosine_similarity(x, y) ==
  LET d == Dot(x, y)
      nx == Dot(x, x)
      ny == Dot(y, y)
  IN IF nx = 0 \/ ny = 0 THEN [num |-> 0, den |-> 1]
     ELSE [num |-> (IF d < 0 THEN 0 - d * d ELSE d * d), den |-> nx * ny]

\* the number -1 that max_similarity starts from
MinusOne == [num |-> 0 - 1, den |-> 1]

GreaterThan(a, b) == a.num * b.den > b.num * a.den

(* ------------------- assign_themes_to_reviews_with_priority ------------ *)
\* if pd.isna(review_content) or not review_content.strip()
\* (faulty variant: the strip test left out)
IsEmptyInput_NoStrip(content) == content.isna
IsEmptyInput(content) ==
  content.isna \/ strip(content.text) = << >>

\* for keyword in keywords: if keyword in review_content_lower: ...; break
KeywordHit(keywords, review_content_lower) ==
  \E i \in 1..Len(keywords) : IsSubstring(keywords[i], review_content_lower)

\* Step 2: the (bucket_name, priority) pairs of the non-sentiment buckets
\* with a keyword hit, in catalog order
PrioritizedKeywordMatching(catalog, review_content_lower) ==
  LET hit(bucket_info) ==
        /\ bucket_info.name # SENTIMENT
        /\ KeywordHit(bucket_info.keywords, review_content_lower)
      hits == SelectSeq(catalog, hit)
  IN [i \in 1..Len(hits) |-> <<hits[i].name, hits[i].priority>>]

\* matched_buckets.sort(key=lambda x: x[1]): a stable sort
InsertByPriority(sorted, x) ==
  LET k == Cardinality({i \in 1..Len(sorted) : sorted[i][2] <= x[2]})
  IN SubSeq(sorted, 1, k) \o <<x>> \o SubSeq(sorted, k + 1, Len(sorted))
\* (faulty variant: sorted with the largest priority number first)
RECURSIVE SortByPriority_Descending(_)
SortByPriority_Descending(matched_buckets) ==
  IF matched_buckets = << >> THEN << >>
  ELSE LET rest == SortByPriority_Descending(Tail(matched_buckets))
           x == Head(matched_buckets)
           k == Cardinality({i \in 1..Len(rest) : rest[i][2] > x[2]})
       IN SubSeq(rest, 1, k) \o <<x>> \o SubSeq(rest, k + 1, Len(rest))
RECURSIVE SortByPriority(_)
SortByPriority(matched_buckets) ==
  IF matched_buckets = << >> THEN << >>
  ELSE InsertByPriority(
         SortByPriority(SubSeq(matched_buckets, 1, Len(matched_buckets) - 1)),
         matched_buckets[Len(matched_buckets)])

\* highest_priority_score = matched_buckets[0][1] and the names that share it
TopPriorityBuckets(matched_buckets) ==
  LET highest_priority_score == matched_buckets[1][2]
      top == SelectSeq(matched_buckets, LAMBDA b : b[2] = highest_priority_score)
  IN [i \in 1..Len(top) |-> top[i][1]]

\* which return statement the call reaches once the scans are done
\* (faulty variants: the sentiment test made first, or left out)
Branch_SentimentFirst(general_sentiment_match, matched_buckets) ==
  IF general_sentiment_match THEN "sentiment"
  ELSE IF matched_buckets # << >> THEN "priority"
  ELSE "fallback"
Branch_NoSentiment(general_sentiment_match, matched_buckets) ==
  IF matched_buckets # << >> THEN "priority" ELSE "fallback"
Branch(general_sentiment_match, matched_buckets) ==
  IF matched_buckets # << >> THEN "priority"
  ELSE IF general_sentiment_match THEN "sentiment"
  ELSE "fallback"

\* if similarity > max_similarity (tie-break loop)
\* (faulty variant: >= in place of >)
TieBreakBetter_OrEqual(similarity, max_similarity) ==
  ~GreaterThan(max_similarity, similarity)
TieBreakBetter(similarity, max_similarity) ==
  GreaterThan(similarity, max_similarity)

\* theme_index = list(operational_buckets.keys()).index(bucket_name)
ThemeIndex(catalog, bucket_name) ==
  index(keys(catalog), bucket_name)

\* the loop over top_priority_buckets, from best_bucket = None, max = -1
RECURSIVE TieBreakLoop(_, _, _, _, _, _)
TieBreakLoop(top, catalog, embeddings, provided, best_bucket, max_similarity) ==
  IF top = << >> THEN [raised |-> "", best_bucket |-> best_bucket]
  ELSE
    LET bucket_name == Head(top)
        theme_index == ThemeIndex(catalog, bucket_name)
    IN IF theme_index > Len(embeddings)
       THEN [raised |-> "IndexError", best_bucket |-> best_bucket]
       ELSE
         LET similarity == cosine_similarity(provided, embeddings[theme_index])
         IN IF TieBreakBetter(similarity, max_similarity)
            THEN TieBreakLoop(Tail(top), catalog, embeddings, provided,
                              bucket_name, similarity)
            ELSE TieBreakLoop(Tail(top), catalog, embeddings, provided,
                              best_bucket, max_similarity)

\* best_bucket = "Uncategorized" before the fallback loop
\* (faulty variant: None, as before the tie-break loop)
FallbackDefault_None == PyNone
FallbackDefault == UNCATEGORIZED

\* if similarity > max_similarity (fallback loop)
FallbackBetter(similarity, max_similarity) ==
  GreaterThan(similarity, max_similarity)

\* if bucket_name == "General Sentiment": continue (fallback loop)
\* (faulty variant: the sentiment bucket not skipped)
FallbackSkips_Nothing(bucket_name) == FALSE
FallbackSkips(bucket_name) == bucket_name = SENTIMENT

\* the loop over enumerate(operational_buckets.items()), from max = -1
RECURSIVE FallbackLoop(_, _, _, _, _, _)
FallbackLoop(i, catalog, embeddings, provided, best_bucket, max_similarity) ==
  IF i > Len(catalog) THEN [raised |-> "", best_bucket |-> best_bucket]
  ELSE IF FallbackSkips(catalog[i].name)
  THEN FallbackLoop(i + 1, catalog, embeddings, provided, best_bucket, max_similarity)
  ELSE IF i > Len(embeddings)
  THEN [raised |-> "IndexError", best_bucket |-> best_bucket]
  ELSE
    LET similarity == cosine_similarity(provided, embeddings[i])
    IN IF FallbackBetter(similarity, max_similarity)
       THEN FallbackLoop(i + 1, catalog, embeddings, provided,
                         catalog[i].name, similarity)
       ELSE FallbackLoop(i + 1, catalog, embeddings, provided,
                         best_bucket, max_similarity)

\* What one call did: the exception it raised ("" when it returned), the
\* value it returned, the two scan results and the number of calls it made
\* to the embedding provider.
CallRecord(raised, value, sentiment_match, matched, embedding_calls) ==
  [raised |-> raised, value |-> value,
   general_sentiment_match |-> sentiment_match,
   matched_buckets |-> matched,
   embedding_calls |-> embedding_calls]

\* content, catalog and embeddings are the three arguments; provided is the
\* vector the embedding provider returns if the call asks for one
assign_themes_to_reviews_with_priority(content, catalog, embeddings, provided) ==
  IF IsEmptyInput(content)
  THEN CallRecord("", UNCATEGORIZED, FALSE, << >>, 0)
  ELSE IF ~HasKey(catalog, SENTIMENT)
  THEN CallRecord("KeyError", PyNone, FALSE, << >>, 0)
  ELSE
    LET review_content_lower == lower(content.text)
        general_sentiment_match ==
          KeywordHit(Bucket(catalog, SENTIMENT).keywords, review_content_lower)
        matched_buckets ==
          SortByPriority(PrioritizedKeywordMatching(catalog, review_content_lower))
        branch == Branch(general_sentiment_match, matched_buckets)
    IN IF branch = "priority"
       THEN
         LET top_priority_buckets == TopPriorityBuckets(matched_buckets)
         IN IF Len(top_priority_buckets) = 1
            THEN CallRecord("", top_priority_buckets[1],
                            general_sentiment_match, matched_buckets, 0)
            ELSE
              LET r == TieBreakLoop(top_priority_buckets, catalog, embeddings,
                                    provided, PyNone, MinusOne)
              IN CallRecord(r.raised, IF r.raised = "" THEN r.best_bucket ELSE PyNone,
                            general_sentiment_match, matched_buckets, 1)
       ELSE IF branch = "sentiment"
       THEN CallRecord("", SENTIMENT, general_sentiment_match, matched_buckets, 0)
       ELSE
         LET r == FallbackLoop(1, catalog, embeddings, provided,
                               FallbackDefault, MinusOne)
         IN CallRecord(r.raised, IF r.raised = "" THEN r.best_bucket ELSE PyNone,
                       general_sentiment_match, matched_buckets, 1)


(* ----------------------- classifier.py: one batch ---------------------- *)
BATCH_SIZE == 10

theme_names ==
  <<<<"O","r","d","e","r"," ","E","x","e","c","u","t","i","o","n">>,
    <<"P","a","y","m","e","n","t","s","/","M","o","n","e","y">>,
    <<"A","p","p"," ","P","e","r","f","o","r","m","a","n","c","e">>,
    <<"O","n","b","o","a","r","d","i","n","g","/","K","Y","C">>,
    <<"C","h","a","r","g","e","s","/","P","o","l","i","c","y">>,
    <<"M","i","s","s","i","n","g"," ","o","r"," ","R","e","q","u","e","s","t","e","d"," ","F","e","a","t","u","r","e","s">>,
    <<"C","u","s","t","o","m","e","r"," ","S","u","p","p","o","r","t">>,
    <<"U","I","/","U","X">>,
    <<"G","e","n","e","r","a","l"," ","S","e","n","t","i","m","e","n","t">>>>

\* the label used when the backend gives none: "General Sentiment"
DefaultTheme == <<"G","e","n","e","r","a","l"," ","S","e","n","t","i","m","e","n","t">>

\* What an item of the backend's JSON array can hold under "theme": a text,
\* nothing (the key is absent), or null.  The texts: a known name, a known
\* name in other letters within a longer text, and an unknown name.
ItemThemes ==
  { [key |-> "text", text |-> <<"A","p","p"," ","P","e","r","f","o","r","m","a","n","c","e">>],
    [key |-> "text", text |-> <<"a","p","p"," ","p","e","r","f","o","r","m","a","n","c","e"," ","b","u","g">>],
    [key |-> "text", text |-> <<"O","t","h","e","r">>],
    [key |-> "absent", text |-> << >>],
    [key |-> "null", text |-> << >>] }

\* What one request to the backend can end in, once the markdown fence has
\* been cut from the text: an exception (generate_content, response.text,
\* json.loads or item.get raising), whose message does or does not have one
\* of the words that select the fallback model; or a JSON array of `count`
\* items, all holding the same `item`.  The review_id of an item is never
\* read by the code, so the order of the items is all that counts.
Responses(n) ==
  { [kind |-> "error", retryable |-> r, count |-> 0, item |-> [key |-> "absent", text |-> << >>]] :
      r \in BOOLEAN }
  \cup
  { [kind |-> "json", retryable |-> FALSE, count |-> c, item |-> i] :
      c \in 0..(n + 1), i \in ItemThemes }

\* if not any(t.lower() in theme.lower() for t in themes)
ThemeIsKnown(theme, themes) ==
  \E i \in 1..Len(themes) : IsSubstring(lower(themes[i]), lower(theme))

\* theme = item.get("theme", "General Sentiment"), then the validation
ExtractTheme(item, themes) ==
  LET theme == IF item.key = "absent" THEN DefaultTheme ELSE item.text
  IN IF ~ThemeIsKnown(theme, themes) THEN DefaultTheme ELSE theme

\* the try block raises: the request or json.loads failed, or theme.lower()
\* met a null theme (an AttributeError, whose message triggers no fallback)
Raises(response) ==
  \/ response.kind = "error"
  \/ response.kind = "json" /\ response.count > 0 /\ response.item.key = "null"
\* (not tried_fallback) and ("not found" in err_str or ...), first attempt
TriesFallback(response) ==
  response.kind = "error" /\ response.retryable

\* the classifications list built from a response that did not raise
Classifications(response, themes) ==
  [j \in 1..response.count |-> ExtractTheme(response.item, themes)]

\* return ["General Sentiment"] * len(reviews_list)
AllDefault(reviews_list) == [j \in 1..Len(reviews_list) |-> DefaultTheme]

\* One call: first is what the request to MODEL_NAME ends in, second what
\* the request to FALLBACK_MODEL ends in if it is made.
classify_batch_reviews(reviews_list, themes, first, second) ==
  IF ~Raises(first)
  THEN [classifications |-> Classifications(first, themes), requests |-> 1, failed |-> FALSE]
  ELSE IF ~TriesFallback(first)
  THEN [classifications |-> AllDefault(reviews_list), requests |-> 1, failed |-> TRUE]
  ELSE IF ~Raises(second)
  THEN [classifications |-> Classifications(second, themes), requests |-> 2, failed |-> FALSE]
  ELSE [classifications |-> AllDefault(reviews_list), requests |-> 2, failed |-> TRUE]

\* range(a, b) as a list
Range(a, b) == [j \in 1..(b - a) |-> a + j - 1]
Min(a, b) == IF a <= b THEN a ELSE b

(* --------------------- the retry loop of both calls -------------------- *)
MODEL_NAME == "gemini-2.5-flash-lite"
FALLBACK_MODEL_Primary == MODEL_NAME
FALLBACK_MODEL == "gemini-2.0-flash-lite-preview"

\* What one request of generate_all_themes_details can end in: an exception,
\* whose message does or does not select the fallback model, or a JSON value
\* of one of the kinds the report tells apart.
DetailsResponses(n) ==
  { [kind |-> "error", retryable |-> r, value |-> "none", entries |-> 0] : r \in BOOLEAN }
  \cup
  { [kind |-> "json", retryable |-> FALSE, value |-> "entries", entries |-> n],
    [kind |-> "json", retryable |-> FALSE, value |-> "no_entries", entries |-> 0],
    [kind |-> "json", retryable |-> FALSE, value |-> "malformed_entries", entries |-> n],
    [kind |-> "json", retryable |-> FALSE, value |-> "not_an_object", entries |-> 0] }

\* what a request of function f on n inputs can end in
RequestOutcomes(f, n) ==
  IF f = "classify" THEN Responses(n) ELSE DetailsResponses(n)

\* the try block raises
TryRaises(f, response) ==
  IF f = "classify" THEN Raises(response) ELSE response.kind = "error"

\* (not tried_fallback) and ("not found" in err_str or "not supported" in
\* err_str or "404" in err_str)
RetryCondition(tried, response) == (~tried) /\ TriesFallback(response)

\* what the try block returns when it does not raise
TryReturns(f, response) ==
  IF f = "classify"
    THEN Classifications(response, theme_names)
    ELSE [kind |-> response.value, entries |-> response.entries]

\* what the except block returns: one "General Sentiment" per review, resp.
\* one placeholder entry per theme
DefaultReturn(f, n) ==
  IF f = "classify"
    THEN AllDefault(Range(0, n))
    ELSE [kind |-> "placeholders", entries |-> n]

(* ------------------------------- state --------------------------------- *)
VARIABLES
  pc,                  \* the engine's run: "off", "load", "assign", "assigned", "failed", "stored"
  operational_buckets, \* the catalog handed to the engine
  bucket_embeddings,   \* one vector per catalog entry, computed once per run
  review_content,      \* the content of the row apply() visits
  review_embedding,    \* the vector the provider holds ready for that row
  call,                \* what the call for that row did (a CallRecord)
  cpc,                 \* classify_reviews: "off", "start", "loop", "returned", "raised", "saved"
  rows,                \* len(reviews_to_process)
  batch_start,         \* the loop variable of classify_reviews
  all_classifications, \* the labels gathered so far
  batches,             \* what each call of classify_batch_reviews was given and returned
  output,              \* the operational_bucket column of output_csv, once written
  review_embedding_again, \* the provider's vector when the same row is classified again
  call_again,          \* what that second call did (a CallRecord)
  gpc,                 \* generate_pulse: "off", "start", "reported", "raised"
  labels,              \* the operational_bucket column generate_pulse reads
  top_3,               \* the themes picked for the report
  report,              \* the report handed to generate_html_report, once built
  rpc,                 \* the retry loop: "off", "try", "done"
  fn,                  \* the function the loop belongs to: "classify" or "details"
  inputs,              \* len(reviews_list), resp. len(themes_with_reviews)
  tried_fallback,      \* the loop's flag
  current_model,       \* the model the next request goes to
  requests,            \* the models requested so far, in order
  result               \* what the call returned, once it has

engine_vars == <<pc, operational_buckets, bucket_embeddings,
                 review_content, review_embedding, call>>
classifier_vars == <<cpc, rows, batch_start, all_classifications, batches, output>>
reorder_vars == <<review_embedding_again, call_again>>
reporter_vars == <<gpc, labels, top_3, report>>
retry_vars == <<rpc, fn, inputs, tried_fallback, current_model, requests, result>>
later_vars == <<reorder_vars, reporter_vars, retry_vars>>
vars == <<engine_vars, classifier_vars, later_vars>>

ClassifierOff ==
  /\ cpc = "off"
  /\ rows = 0
  /\ batch_start = 0
  /\ all_classifications = << >>
  /\ batches = << >>
  /\ output = [written |-> FALSE, operational_bucket |-> << >>]

ReorderOff ==
  /\ review_embedding_again = <<0, 0>>
  /\ call_again = CallRecord("", PyNone, FALSE, << >>, 0)

ReporterOff ==
  /\ gpc = "off"
  /\ labels = << >>
  /\ top_3 = << >>
  /\ report = [built |-> FALSE, top_themes |-> << >>]

RetryOff ==
  /\ rpc = "off"
  /\ fn = "classify"
  /\ inputs = 0
  /\ tried_fallback = FALSE
  /\ current_model = MODEL_NAME
  /\ requests = << >>
  /\ result = [returned |-> FALSE, failed |-> FALSE, value |-> << >>]

LaterOff == ReorderOff /\ ReporterOff /\ RetryOff

Init ==
  /\ pc = "load"
  /\ operational_buckets \in Catalogs
  /\ bucket_embeddings = << >>
  /\ review_content = [isna |-> TRUE, text |-> << >>]
  /\ review_embedding = <<0, 0>>
  /\ call = CallRecord("", PyNone, FALSE, << >>, 0)
  /\ ClassifierOff
  /\ LaterOff

\* bucket_embeddings = [get_embedding_simulation(name) for name in bucket_names]
GenerateBucketEmbeddings ==
  /\ pc = "load"
  /\ \E e \in [1..Len(operational_buckets) -> EmbeddingSpace] :
       /\ \A i \in 1..Len(operational_buckets) :
            e[i] \in get_embedding_simulation(operational_buckets[i].name)
       /\ bucket_embeddings' = e
  /\ pc' = "assign"
  /\ UNCHANGED <<operational_buckets, review_content, review_embedding, call>>
  /\ UNCHANGED <<classifier_vars, later_vars>>

\* reviews_df['content'].apply(lambda x: assign_...(x, ...)), followed on one
\* row (the calls for different rows share nothing but the catalog and the
\* bucket embeddings); an exception leaves the apply and is caught by the
\* handler of __main__
ApplyAssign ==
  /\ pc = "assign"
  /\ \E x \in Contents :
       \E v \in get_embedding_simulation(x) :
         LET c == assign_themes_to_reviews_with_priority(
                    x, operational_buckets, bucket_embeddings, v)
         IN /\ review_content' = x
            /\ review_embedding' = v
            /\ call' = c
            /\ pc' = IF c.raised = "" THEN "assigned" ELSE "failed"
  /\ UNCHANGED <<operational_buckets, bucket_embeddings>>
  /\ UNCHANGED <<classifier_vars, later_vars>>

\* reviews_df.to_csv(...) once every row has its bucket
StoreResults ==
  /\ pc \in {"assign", "assigned"}
  /\ pc' = "stored"
  /\ UNCHANGED <<operational_buckets, bucket_embeddings,
                 review_content, review_embedding, call>>
  /\ UNCHANGED <<classifier_vars, later_vars>>

Next == GenerateBucketEmbeddings \/ ApplyAssign \/ StoreResults

Spec == Init /\ [][Next]_vars

(* ------------------------ classifier.py: the run ----------------------- *)
InitClassifier ==
  /\ pc = "off"
  /\ operational_buckets = OPERATIONAL_BUCKETS
  /\ bucket_embeddings = << >>
  /\ review_content = [isna |-> TRUE, text |-> << >>]
  /\ review_embedding = <<0, 0>>
  /\ call = CallRecord("", PyNone, FALSE, << >>, 0)
  /\ cpc = "start"
  /\ rows \in 0..MaxRows
  /\ batch_start = 0
  /\ all_classifications = << >>
  /\ batches = << >>
  /\ output = [written |-> FALSE, operational_bucket |-> << >>]
  /\ LaterOff

\* df = pd.read_csv(input_csv); an empty table ends the run with no output
ReadInput ==
  /\ cpc = "start"
  /\ cpc' = IF rows = 0 THEN "returned" ELSE "loop"
  /\ UNCHANGED <<rows, batch_start, all_classifications, batches, output>>
  /\ UNCHANGED <<engine_vars, later_vars>>

\* one pass of the loop over range(0, len(reviews_to_process), BATCH_SIZE)
ClassifyBatch ==
  /\ cpc = "loop"
  /\ batch_start < rows
  /\ LET batch_end == Min(batch_start + BATCH_SIZE, rows)
         batch_reviews == Range(batch_start, batch_end)
     IN \E first \in Responses(Len(batch_reviews)) :
          \E second \in (IF Raises(first) /\ TriesFallback(first)
                         THEN Responses(Len(batch_reviews)) ELSE {first}) :
            LET r == classify_batch_reviews(batch_reviews, theme_names, first, second)
            IN /\ all_classifications' = all_classifications \o r.classifications
               /\ batches' = Append(batches,
                                    [reviews |-> batch_reviews,
                                     classifications |-> r.classifications,
                                     requests |-> r.requests,
                                     failed |-> r.failed])
  /\ batch_start' = batch_start + BATCH_SIZE
  /\ UNCHANGED <<cpc, rows, output>>
  /\ UNCHANGED <<engine_vars, later_vars>>

\* reviews_to_process['operational_bucket'] = all_classifications raises a
\* ValueError unless there is one label per row; then to_csv writes the table
AttachAndSave ==
  /\ cpc = "loop"
  /\ batch_start >= rows
  /\ IF Len(all_classifications) = rows
     THEN /\ cpc' = "saved"
          /\ output' = [written |-> TRUE, operational_bucket |-> all_classifications]
     ELSE /\ cpc' = "raised"
          /\ output' = output
  /\ UNCHANGED <<rows, batch_start, all_classifications, batches>>
  /\ UNCHANGED <<engine_vars, later_vars>>

NextClassifier == ReadInput \/ ClassifyBatch \/ AttachAndSave

SpecClassifier == InitClassifier /\ [][NextClassifier]_vars

(* ------------- the engine applied to the same review again ------------- *)
\* A run over the real catalog.  The row classified by ApplyAssign is
\* classified a second time against the same bucket_embeddings, as happens
\* when the table is processed in another order or in other chunks: the
\* call is the same one, and the provider draws afresh from the process-wide
\* generator of np.random, whose state depends on the calls made before.
InitReorder ==
  /\ pc = "load"
  /\ operational_buckets = OPERATIONAL_BUCKETS
  /\ bucket_embeddings = << >>
  /\ review_content = [isna |-> TRUE, text |-> << >>]
  /\ review_embedding = <<0, 0>>
  /\ call = CallRecord("", PyNone, FALSE, << >>, 0)
  /\ ClassifierOff
  /\ LaterOff

ApplyAssignAgain ==
  /\ pc = "assigned"
  /\ \E v \in get_embedding_simulation(review_content) :
       /\ review_embedding_again' = v
       /\ call_again' = assign_themes_to_reviews_with_priority(
                          review_content, operational_buckets, bucket_embeddings, v)
  /\ pc' = "reassigned"
  /\ UNCHANGED <<operational_buckets, bucket_embeddings,
                 review_content, review_embedding, call>>
  /\ UNCHANGED <<classifier_vars, reporter_vars, retry_vars>>

NextReorder == GenerateBucketEmbeddings \/ ApplyAssign \/ ApplyAssignAgain

SpecReorder == InitReorder /\ [][NextReorder]_vars

(* ------------------------- notions the claims use ---------------------- *)
\* a call of the engine was made for the row and has ended
CallEnded == pc \in {"assigned", "failed"}
\* the call ended by returning a value
CallReturned == CallEnded /\ call.raised = ""
\* the catalog has the sentiment bucket
HasSentimentBucket ==
  \E i \in 1..Len(operational_buckets) : operational_buckets[i].name = SENTIMENT
\* the content is a string with a character that is not whitespace
NonEmptyContent ==
  /\ ~review_content.isna
  /\ \E i \in 1..Len(review_content.text) : review_content.text[i] \notin Whitespace
BucketNames == {operational_buckets[i].name : i \in 1..Len(operational_buckets)}
NonSentimentPositions ==
  {i \in 1..Len(operational_buckets) : operational_buckets[i].name # SENTIMENT}
\* the lowered content contains a keyword of the bucket at position i
Matches(i, content_lower) ==
  \E k \in 1..Len(operational_buckets[i].keywords) :
    IsSubstring(operational_buckets[i].keywords[k], content_lower)
\* the non-sentiment buckets the content matches
MatchedPositions ==
  LET content_lower == lower(review_content.text)
  IN {i \in NonSentimentPositions : Matches(i, content_lower)}
\* the content matches a keyword of the sentiment bucket
SentimentMatched ==
  LET content_lower == lower(review_content.text)
  IN \E i \in 1..Len(operational_buckets) :
       operational_buckets[i].name = SENTIMENT /\ Matches(i, content_lower)
\* the matched buckets of minimum priority
TiedPositions ==
  LET matched == MatchedPositions
  IN {i \in matched :
        \A j \in matched :
          operational_buckets[i].priority <= operational_buckets[j].priority}
\* similarity of the review to the bucket at catalog position i
SimilarityAt(i) == cosine_similarity(review_embedding, bucket_embeddings[i])
ReturnedPositions ==
  {i \in 1..Len(operational_buckets) : operational_buckets[i].name = call.value}

(* ------------------------------- claims -------------------------------- *)
\* C1: Totality.  For a catalog that has the sentiment bucket, every call,
\* whatever the content and whatever vectors the provider returned, returns
\* a bucket name of the catalog or "Uncategorized", and never None.
C1_Totality ==
  (CallEnded /\ HasSentimentBucket) =>
    /\ call.raised = ""
    /\ call.value # PyNone
    /\ call.value \in BucketNames \cup {UNCATEGORIZED}
\* the tied-priority similarity path was taken and returned a bucket
C1_Witness ==
  /\ CallReturned /\ HasSentimentBucket
  /\ Cardinality(TiedPositions) >= 2
  /\ call.embedding_calls = 1
  /\ call.value \in BucketNames

C3_CaseInsensitiveHit ==
  (CallReturned /\ HasSentimentBucket /\ NonEmptyContent) =>
    \A i \in 1..Len(operational_buckets) :
      \A k \in 1..Len(operational_buckets[i].keywords) :
        IsSubstring(lower(operational_buckets[i].keywords[k]),
                    lower(review_content.text))
        => IF operational_buckets[i].name = SENTIMENT
           THEN call.general_sentiment_match
           ELSE \E m \in 1..Len(call.matched_buckets) :
                  call.matched_buckets[m][1] = operational_buckets[i].name

\* C4: Empty-input law.  For any catalog, a missing content or a content
\* that is empty once whitespace is trimmed makes the call return
\* "Uncategorized" without raising and without calling the provider.
C4_EmptyInputLaw ==
  (CallEnded /\ ~NonEmptyContent) =>
    /\ call.raised = ""
    /\ call.value = UNCATEGORIZED
    /\ call.embedding_calls = 0
\* a whitespace-only content was classified against the empty catalog
C4_Witness ==
  /\ CallReturned
  /\ operational_buckets = EMPTY_BUCKETS
  /\ ~review_content.isna /\ review_content.text # << >>
  /\ ~NonEmptyContent
  /\ call.value = UNCATEGORIZED

\* C5: Tie stability.  When two or more matched non-sentiment buckets share
\* the minimum priority, the call returns one of them: the one most similar
\* to the review embedding among the tied buckets only, and among equally
\* similar ones the first in catalog order.
C5_TieStability ==
  LET tied == TiedPositions
  IN ( /\ CallEnded /\ HasSentimentBucket /\ NonEmptyContent
       /\ Cardinality(tied) >= 2 )
     =>
       /\ call.raised = ""
       /\ \E w \in tied :
            /\ call.value = operational_buckets[w].name
            /\ \A t \in tied : ~GreaterThan(SimilarityAt(t), SimilarityAt(w))
            /\ \A t \in tied :
                 (~GreaterThan(SimilarityAt(w), SimilarityAt(t))) => w <= t
\* two tied buckets are equally similar to the review, the first is returned,
\* and a bucket outside the tied set is strictly more similar than it
C5_Witness ==
  LET tied == TiedPositions
  IN /\ CallReturned /\ HasSentimentBucket /\ NonEmptyContent
     /\ Cardinality(tied) >= 2
     /\ \E w, t \in tied :
          /\ w < t
          /\ call.value = operational_buckets[w].name
          /\ SimilarityAt(w) = SimilarityAt(t)
     /\ \E o \in NonSentimentPositions \ tied :
          \A w \in ReturnedPositions : GreaterThan(SimilarityAt(o), SimilarityAt(w))

C7_FullFallback ==
  ( /\ CallEnded /\ HasSentimentBucket /\ NonEmptyContent
    /\ ~SentimentMatched /\ MatchedPositions = {} )
  =>
    /\ call.raised = ""
    /\ call.value # SENTIMENT
    /\ (call.value = UNCATEGORIZED) <=> (NonSentimentPositions = {})
    /\ NonSentimentPositions # {} =>
         \E w \in NonSentimentPositions :
           /\ call.value = operational_buckets[w].name
           /\ \A b \in NonSentimentPositions :
                ~GreaterThan(SimilarityAt(b), SimilarityAt(w))
\* nothing matched, the sentiment bucket is strictly the most similar bucket
\* and a less similar non-sentiment bucket is returned
C7_Witness ==
  /\ CallReturned /\ HasSentimentBucket /\ NonEmptyContent
  /\ ~SentimentMatched /\ MatchedPositions = {}
  /\ \E w \in NonSentimentPositions :
       /\ call.value = operational_buckets[w].name
       /\ \E s \in 1..Len(operational_buckets) :
            /\ operational_buckets[s].name = SENTIMENT
            /\ GreaterThan(SimilarityAt(s), SimilarityAt(w))
       /\ \E b \in NonSentimentPositions :
            GreaterThan(SimilarityAt(w), SimilarityAt(b))

\* C8: Sentiment-only match.  A non-empty content that matches a sentiment
\* keyword and no keyword of a non-sentiment bucket is given the sentiment
\* bucket, and the provider is not called.
C8_SentimentOnly ==
  ( /\ CallEnded /\ HasSentimentBucket /\ NonEmptyContent
    /\ SentimentMatched /\ MatchedPositions = {} )
  =>
    /\ call.raised = ""
    /\ call.value = SENTIMENT
    /\ call.embedding_calls = 0
\* only a sentiment keyword matched, in a catalog that has other buckets
C8_Witness ==
  /\ CallReturned /\ HasSentimentBucket /\ NonEmptyContent
  /\ SentimentMatched /\ MatchedPositions = {}
  /\ NonSentimentPositions # {}
  /\ call.value = SENTIMENT

\* the known theme names
KnownThemes == {theme_names[i] : i \in 1..Len(theme_names)}
\* classify_reviews ran over a non-empty table and has ended
ClassifierEnded == cpc \in {"saved", "raised"}

\* C9: Remote batch classifier totality.  After classify_reviews has run over
\* N reviews, whatever the backend answered, there are N labels, one attached
\* to every review, and each label is exactly one of the known theme names.
C9_RemoteTotality ==
  ClassifierEnded =>
    /\ Len(all_classifications) = rows
    /\ output.written
    /\ Len(output.operational_bucket) = rows
    /\ \A i \in 1..Len(all_classifications) : all_classifications[i] \in KnownThemes

\* C10: Partial progress across chunks.  Whatever failed in some chunk
\* (exception, malformed or wrong-length response), every chunk was
\* processed, and every label a chunk's call returned for its j-th review is
\* attached to that review in the written output.
C10_PartialProgress ==
  ClassifierEnded =>
    /\ Len(batches) * BATCH_SIZE >= rows
    /\ output.written
    /\ \A b \in 1..Len(batches) :
         \A j \in 1..Len(batches[b].reviews) :
           /\ batches[b].reviews[j] + 1 <= Len(output.operational_bucket)
           /\ j <= Len(batches[b].classifications) =>
                output.operational_bucket[batches[b].reviews[j] + 1]
                  = batches[b].classifications[j]

\* C11: Per-review independence.  The bucket of a review depends only on its
\* content, the catalog and the bucket-embedding snapshot: classified again
\* in the same run (in another position of the table, or another chunk), the
\* review gets the same bucket.
C11_Independence ==
  pc = "reassigned" =>
    /\ call_again.raised = call.raised
    /\ call_again.value = call.value


(* ------------------------------ reporter ------------------------------- *)
\* How many rows the labelled table has at most.
MaxLabels == 4

\* The labels the column is drawn from: four actionable themes of the
\* catalog and the sentiment bucket.
ColumnLabels ==
  {theme_names[1], theme_names[2], theme_names[3], theme_names[4], DefaultTheme}

\* df['operational_bucket'] of a table of at most MaxLabels rows
Columns == UNION {[1..n -> ColumnLabels] : n \in 0..MaxLabels}

\* df[df['operational_bucket'] != 'General Sentiment']
Actionable(column) == SelectSeq(column, LAMBDA l : l # DefaultTheme)

ActionableOrAll_NoFallback(column) == Actionable(column)
\* if actionable.empty: actionable = df
ActionableOrAll(column) ==
  IF Actionable(column) = << >> THEN column ELSE Actionable(column)

Count(column, l) == Cardinality({i \in DOMAIN column : column[i] = l})

FirstAt(column, l) ==
  CHOOSE i \in DOMAIN column :
    column[i] = l /\ \A j \in 1..(i - 1) : column[j] # l

\* Series.value_counts(): the distinct labels by descending count; the sort
\* is stable, so labels of equal count stay in the order in which they first
\* occur in the column.
value_counts(column) ==
  LET distinct == {column[i] : i \in DOMAIN column}
      Before(a, b) ==
        \/ Count(column, a) > Count(column, b)
        \/ /\ Count(column, a) = Count(column, b)
           /\ FirstAt(column, a) < FirstAt(column, b)
  IN  [k \in 1..Cardinality(distinct) |->
         CHOOSE l \in distinct :
           Cardinality({m \in distinct : Before(m, l)}) = k - 1]

\* .head(n)
head(s, n) == SubSeq(s, 1, Min(n, Len(s)))

\* actionable['operational_bucket'].value_counts().head(3).index.tolist()
TopThemes(column) == head(value_counts(ActionableOrAll(column)), 3)

\* What generate_all_themes_details hands back: the parsed JSON of the
\* backend, whatever it is (an object with a well-formed entry per theme, an
\* object without the themes, an object whose entries lack the fields the
\* report reads, a JSON value that is no object), or its own placeholders.
DetailsValues ==
  {"entries", "no_entries", "malformed_entries", "not_an_object", "placeholders"}

\* report['top_themes'] after the loop over enumerate(top_3)
ReportThemes(top) == [i \in DOMAIN top |-> [rank |-> i, theme_name |-> top[i]]]

EngineOff ==
  /\ pc = "off"
  /\ operational_buckets = OPERATIONAL_BUCKETS
  /\ bucket_embeddings = << >>
  /\ review_content = [isna |-> TRUE, text |-> << >>]
  /\ review_embedding = <<0, 0>>
  /\ call = CallRecord("", PyNone, FALSE, << >>, 0)

\* generate_pulse is called on a file that exists and has the column
InitReporter ==
  /\ EngineOff
  /\ ClassifierOff
  /\ ReorderOff
  /\ RetryOff
  /\ gpc = "start"
  /\ labels \in Columns
  /\ top_3 = << >>
  /\ report = [built |-> FALSE, top_themes |-> << >>]

\* generate_pulse, lines 107-137.  all_theme_details.get raises when the
\* details are no object, generate_html_report raises when an entry lacks a
\* field; both happen only when there is a theme to report.
GeneratePulse ==
  /\ gpc = "start"
  /\ LET top == TopThemes(labels)
     IN  /\ top_3' = top
         /\ \E all_theme_details \in DetailsValues :
              IF all_theme_details = "not_an_object" /\ top # << >>
                THEN /\ gpc' = "raised"
                     /\ report' = [built |-> FALSE, top_themes |-> << >>]
                ELSE /\ report' = [built |-> TRUE, top_themes |-> ReportThemes(top)]
                     /\ gpc' = IF all_theme_details = "malformed_entries" /\ top # << >>
                                 THEN "raised" ELSE "reported"
  /\ UNCHANGED labels
  /\ UNCHANGED <<engine_vars, classifier_vars, reorder_vars, retry_vars>>

NextReporter == GeneratePulse

SpecReporter == InitReporter /\ [][NextReporter]_vars

PulseEnded == gpc \in {"reported", "raised"}

\* position of a label in the catalog (theme_names)
CatalogPosition(l) == index(theme_names, l)

\* the labels of the column other than the sentiment bucket, by descending
\* count, equal counts in catalog order
ByCountThenCatalog(column) ==
  LET distinct == {column[i] : i \in DOMAIN column} \ {DefaultTheme}
      Before(a, b) ==
        \/ Count(column, a) > Count(column, b)
        \/ /\ Count(column, a) = Count(column, b)
           /\ CatalogPosition(a) < CatalogPosition(b)
  IN  [k \in 1..Cardinality(distinct) |->
         CHOOSE l \in distinct :
           Cardinality({m \in distinct : Before(m, l)}) = k - 1]

\* C12: Top-N selection.  For a labelled collection with at least one
\* actionable label, the reporter's top themes are the three most frequent
\* labels other than the sentiment bucket, by descending count, labels of
\* equal count in the catalog's bucket order.
C12_TopNSelection ==
  (PulseEnded /\ Actionable(labels) # << >>) =>
    top_3 = head(ByCountThenCatalog(labels), 3)


\* the catalog is empty or has no sentiment bucket
CatalogMisconfigured ==
  Len(operational_buckets) = 0 \/ ~HasSentimentBucket

\* C13: Catalog misconfiguration is fatal at setup.  With an empty catalog or
\* one without the sentiment bucket the run fails before any review is
\* classified: no call on such a catalog returns a label, and no results are
\* stored.
C13_MisconfigurationFatal ==
  CatalogMisconfigured => (~CallReturned /\ pc # "stored")


\* every label of the column is the sentiment bucket
AllSentiment == \A i \in DOMAIN labels : labels[i] = DefaultTheme

TopThemeNames == {top_3[i] : i \in DOMAIN top_3}

InitRetry ==
  /\ EngineOff
  /\ ClassifierOff
  /\ ReorderOff
  /\ ReporterOff
  /\ rpc = "try"
  /\ fn \in {"classify", "details"}
  /\ inputs \in (IF fn = "classify" THEN 1..BATCH_SIZE ELSE 0..3)
  /\ tried_fallback = FALSE
  /\ current_model = MODEL_NAME
  /\ requests = << >>
  /\ result = [returned |-> FALSE, failed |-> FALSE, value |-> << >>]

\* a pass of `while True` whose try block runs to its return
RequestReturns ==
  /\ rpc = "try"
  /\ \E response \in RequestOutcomes(fn, inputs) :
       /\ ~TryRaises(fn, response)
       /\ result' = [returned |-> TRUE, failed |-> FALSE,
                     value |-> TryReturns(fn, response)]
  /\ requests' = Append(requests, current_model)
  /\ rpc' = "done"
  /\ UNCHANGED <<fn, inputs, tried_fallback, current_model>>
  /\ UNCHANGED <<engine_vars, classifier_vars, reorder_vars, reporter_vars>>

\* a pass whose try block raises and whose except block continues the loop
RequestFailsTryFallback ==
  /\ rpc = "try"
  /\ \E response \in RequestOutcomes(fn, inputs) :
       /\ TryRaises(fn, response)
       /\ RetryCondition(tried_fallback, response)
  /\ requests' = Append(requests, current_model)
  /\ tried_fallback' = TRUE
  /\ current_model' = FALLBACK_MODEL
  /\ UNCHANGED <<rpc, fn, inputs, result>>
  /\ UNCHANGED <<engine_vars, classifier_vars, reorder_vars, reporter_vars>>

\* a pass whose try block raises and whose except block returns the default
RequestFailsReturnDefault ==
  /\ rpc = "try"
  /\ \E response \in RequestOutcomes(fn, inputs) :
       /\ TryRaises(fn, response)
       /\ ~RetryCondition(tried_fallback, response)
  /\ requests' = Append(requests, current_model)
  /\ result' = [returned |-> TRUE, failed |-> TRUE,
                value |-> DefaultReturn(fn, inputs)]
  /\ rpc' = "done"
  /\ UNCHANGED <<fn, inputs, tried_fallback, current_model>>
  /\ UNCHANGED <<engine_vars, classifier_vars, reorder_vars, reporter_vars>>

NextRetry == RequestReturns \/ RequestFailsTryFallback \/ RequestFailsReturnDefault

\* the loop is straight-line code: a pass that can run does run
SpecRetry == InitRetry /\ [][NextRetry]_vars /\ WF_vars(NextRetry)

RetrySafe ==
  /\ rpc \in {"try", "done"}
  /\ Len(requests) <= 2
  /\ Len(requests) >= 1 => requests[1] = MODEL_NAME
  /\ Len(requests) = 2 =>
       /\ requests[2] = FALLBACK_MODEL
       /\ requests[2] # requests[1]
       /\ tried_fallback
  /\ rpc = "try" =>
       /\ ~result.returned
       /\ tried_fallback <=> Len(requests) = 1
       /\ current_model = (IF tried_fallback THEN FALLBACK_MODEL ELSE MODEL_NAME)
  /\ rpc = "done" =>
       /\ result.returned
       /\ Len(requests) >= 1
       /\ result.failed => result.value = DefaultReturn(fn, inputs)

=============================================================================
